---- MODULE Spec2Model ----
(***************************************************************************)
(* Model of tinyquery's built-in function library (src/runtime.py).        *)
(*                                                                         *)
(* The library is a set of stateless Function objects, each with a         *)
(* check_types and an evaluate method.  A behaviour of the model is one    *)
(* call: Init draws the function and its arguments, one action per method  *)
(* applies it and stores what it returned or raised.                       *)
(*                                                                         *)
(* runtime.py is Python 2 (xrange, map returning lists): `/` on two ints   *)
(* is floor division and None orders below every other value.              *)
(***************************************************************************)
EXTENDS Integers, Sequences, FiniteSets, TLC

VARIABLES
    fn,      \* the function called: a registry key or a class name
    args,    \* the arguments of the call, a record
    result,  \* what the call returned or raised
    pc       \* "call" before the method runs, "done" after

vars == <<fn, args, result, pc>>

(***************************************************************************)
(* Bounds of the model.                                                    *)
(***************************************************************************)
MaxLen == 3      \* longest column handed to an aggregate function
MaxVal == 1      \* INT column values range over -MaxVal..MaxVal
MaxK == 3        \* largest quantile count
MaxRows == 2     \* most rows of a column handed to a scalar function
MaxCount == 13   \* DATE_ADD counts range over -MaxCount..MaxCount
MaxStages == 3   \* most functions handed to Compose

(***************************************************************************)
(* Python values.  Every value carries its Python type, so that None, an   *)
(* int and a list are distinct values that can be compared.                *)
(***************************************************************************)
None == [t |-> "NoneType", v |-> 0]
PyInt(n) == [t |-> "int", v |-> n]
PyBool(b) == [t |-> "bool", v |-> b]
PyList(s) == [t |-> "list", v |-> s]
IsNone(x) == x.t = "NoneType"

\* What a call produced: a returned value or a raised exception.
Return(v) == [exc |-> "none", val |-> v]
Raise(e) == [exc |-> e]
NoResult == [exc |-> "not called"]
Returned(r) == r.exc = "none"
Raised(r) == r.exc \notin {"none", "not called"}

SeqsUpTo(S, n) == UNION {[1..m -> S] : m \in 0..n}

(***************************************************************************)
(* tq_types and tq_modes (imported by runtime.py).                         *)
(***************************************************************************)
tq_INT == "INT"
tq_FLOAT == "FLOAT"
tq_STRING == "STRING"
tq_BOOL == "BOOL"
tq_TIMESTAMP == "TIMESTAMP"
tq_NONETYPE == "NONETYPE"
Types == {tq_INT, tq_FLOAT, tq_STRING, tq_BOOL, tq_TIMESTAMP, tq_NONETYPE}

NULLABLE == "NULLABLE"
REPEATED == "REPEATED"

\* context.Column(type, mode, values)
Column(type, mode, values) == [type |-> type, mode |-> mode, values |-> values]

(***************************************************************************)
(* ArithmeticOperator                                                      *)
(***************************************************************************)
ArithmeticSymbols == {"+", "-", "*", "/", "%", "pow"}

\* Mutant: promotes to FLOAT only when both operands are FLOAT.
ArithmeticOperator_check_types_and(type1, type2) ==
    LET numeric_types == {tq_FLOAT, tq_INT} IN
    IF type1 \notin numeric_types \/ type2 \notin numeric_types
    THEN Raise("TypeError")
    ELSE IF type1 = tq_FLOAT /\ type2 = tq_FLOAT THEN Return(tq_FLOAT)
    ELSE Return(tq_INT)

ArithmeticOperator_check_types(type1, type2) ==
    LET numeric_types == {tq_FLOAT, tq_INT} IN
    IF type1 \notin numeric_types \/ type2 \notin numeric_types
    THEN Raise("TypeError")
    ELSE IF type1 = tq_FLOAT \/ type2 = tq_FLOAT THEN Return(tq_FLOAT)
    ELSE Return(tq_INT)

(***************************************************************************)
(* IfFunction                                                              *)
(***************************************************************************)
\* Mutant: the check of the condition's type is missing.
IfFunction_check_types_nocond(cond, arg1, arg2) ==
    IF arg1 = tq_NONETYPE THEN Return(arg2)
    ELSE IF arg2 = tq_NONETYPE THEN Return(arg1)
    ELSE IF arg1 # arg2 THEN Raise("TypeError")
    ELSE Return(arg1)

IfFunction_check_types(cond, arg1, arg2) ==
    IF cond # tq_BOOL THEN Raise("TypeError")
    ELSE IF arg1 = tq_NONETYPE THEN Return(arg2)
    ELSE IF arg2 = tq_NONETYPE THEN Return(arg1)
    ELSE IF arg1 # arg2 THEN Raise("TypeError")
    ELSE Return(arg1)

(***************************************************************************)
(* IfNullFunction                                                          *)
(***************************************************************************)
IfNullFunction_check_types(arg1, arg2) ==
    IF arg1 = tq_NONETYPE THEN Return(arg2)
    ELSE IF arg2 = tq_NONETYPE THEN Return(arg1)
    ELSE IF arg1 # arg2 THEN Raise("TypeError")
    ELSE Return(arg1)

\* `arg2 if arg1 is None else arg1`, where arg1 and arg2 are the argument
\* columns themselves: a Column object is never None.
IfNullFunction_evaluate(num_rows, arg1, arg2) ==
    IF arg1 = None THEN Return(arg2) ELSE Return(arg1)

(***************************************************************************)
(* Python built-ins used by the aggregate functions.                       *)
(***************************************************************************)
\* Python 2 ordering: None is below everything, ints by value, lists
\* lexicographically.
RECURSIVE LexLess(_, _)
LexLess(s, u) ==
    IF u = <<>> THEN FALSE
    ELSE IF s = <<>> THEN TRUE
    ELSE IF s[1].v # u[1].v THEN s[1].v < u[1].v
    ELSE LexLess(Tail(s), Tail(u))

PyLess(a, b) ==
    IF IsNone(a) THEN ~IsNone(b)
    ELSE IF IsNone(b) THEN FALSE
    ELSE IF a.t = "list" THEN LexLess(a.v, b.v)
    ELSE a.v < b.v

Elems(s) == {s[i] : i \in DOMAIN s}

\* [x for x in values if x is not None]
RECURSIVE NotNone(_)
NotNone(values) ==
    IF values = <<>> THEN <<>>
    ELSE IF IsNone(Head(values)) THEN NotNone(Tail(values))
    ELSE <<Head(values)>> \o NotNone(Tail(values))

\* A float that is the quotient of two ints, kept exact as a reduced
\* fraction <<numerator, denominator>> with a positive denominator.
RECURSIVE GCD(_, _)
GCD(a, b) == IF b = 0 THEN a ELSE GCD(b, a % b)
Abs(n) == IF n < 0 THEN -n ELSE n
PyFloat(num, den) ==
    LET g == GCD(Abs(num), den) IN
    [t |-> "float", v |-> <<num \div g, den \div g>>]

\* sum(values): 0 + values[0] + ...; adding a list to an int raises, a
\* bool counts as the int 0 or 1, and the sum is a float as soon as one of
\* the values is.
IntOf(x) == IF x.t = "bool" THEN (IF x.v THEN 1 ELSE 0) ELSE x.v

RECURSIVE SumInts(_)
SumInts(values) ==
    IF values = <<>> THEN 0 ELSE IntOf(Head(values)) + SumInts(Tail(values))

\* The sum as a fraction <<numerator, denominator>>.
FractionOf(x) == IF x.t = "float" THEN x.v ELSE <<IntOf(x), 1>>
RECURSIVE SumFractions(_)
SumFractions(values) ==
    IF values = <<>> THEN <<0, 1>>
    ELSE LET a == FractionOf(Head(values))
             b == SumFractions(Tail(values)) IN
         <<a[1] * b[2] + b[1] * a[2], a[2] * b[2]>>

PySum(values) ==
    IF \E i \in DOMAIN values : values[i].t \notin {"int", "bool", "float"}
    THEN Raise("TypeError")
    ELSE IF \E i \in DOMAIN values : values[i].t = "float"
    THEN Return(PyFloat(SumFractions(values)[1], SumFractions(values)[2]))
    ELSE Return(PyInt(SumInts(values)))

\* min(values) and max(values); both raise ValueError on an empty sequence.
PyMin(values) ==
    IF values = <<>> THEN Raise("ValueError")
    ELSE Return(CHOOSE x \in Elems(values) :
                    \A y \in Elems(values) : ~PyLess(y, x))

PyMax(values) ==
    IF values = <<>> THEN Raise("ValueError")
    ELSE Return(CHOOSE x \in Elems(values) :
                    \A y \in Elems(values) : ~PyLess(x, y))

\* sorted(values), by insertion.
RECURSIVE InsertSorted(_, _)
InsertSorted(x, s) ==
    IF s = <<>> THEN <<x>>
    ELSE IF PyLess(x, Head(s)) THEN <<x>> \o s
    ELSE <<Head(s)>> \o InsertSorted(x, Tail(s))

RECURSIVE Sorted(_)
Sorted(values) ==
    IF values = <<>> THEN <<>>
    ELSE InsertSorted(values[Len(values)], Sorted(SubSeq(values, 1, Len(values) - 1)))

Min2(a, b) == IF a < b THEN a ELSE b

(***************************************************************************)
(* Aggregate functions (_AGGREGATE_FUNCTIONS).                             *)
(***************************************************************************)
AGGREGATE_FUNCTIONS ==
    {"sum", "min", "max", "count", "avg", "count_distinct", "stddev_samp",
     "quantiles", "first"}

FirstFunction_check_types(rep_list_type) == Return(rep_list_type)

\* FirstFunction.evaluate: the [None] set for an empty column is overwritten
\* by the branch on the mode that follows it.
FirstFunction_evaluate(num_rows, column) ==
    IF column.mode = REPEATED
    THEN Return(Column(column.type, NULLABLE,
             [i \in DOMAIN column.values |->
                 IF Len(column.values[i].v) > 0 THEN column.values[i].v[1]
                 ELSE None]))
    ELSE IF Len(column.values) = 0 THEN Raise("IndexError")
    ELSE Return(Column(column.type, NULLABLE, <<column.values[1]>>))

MinMaxFunction_check_types(arg) == Return(arg)

MinMaxFunction_evaluate(func, num_rows, column) ==
    LET r == IF func = "min" THEN PyMin(column.values)
             ELSE PyMax(column.values) IN
    IF Raised(r) THEN r
    ELSE Return(Column(MinMaxFunction_check_types(column.type).val, NULLABLE,
                       <<r.val>>))

SumFunction_check_types(arg) ==
    IF arg = tq_BOOL THEN Return(tq_INT)
    ELSE IF arg = tq_INT \/ arg = tq_FLOAT THEN Return(arg)
    ELSE Raise("TypeError")

\* [0 if arg is None else arg for arg in column.values]
NoneAsZero(values) ==
    [i \in DOMAIN values |-> IF IsNone(values[i]) THEN PyInt(0) ELSE values[i]]

SumFunction_evaluate(num_rows, column) ==
    LET r == PySum(NoneAsZero(column.values)) IN
    IF Raised(r) THEN r
    ELSE Return(Column(tq_INT, NULLABLE, <<r.val>>))

CountFunction_check_types(arg) == Return(tq_INT)

\* Mutant: counts every slot, NULL or not.
CountFunction_evaluate_all(num_rows, column) ==
    Return(Column(tq_INT, NULLABLE, <<PyInt(Len(column.values))>>))

CountFunction_evaluate(num_rows, column) ==
    Return(Column(tq_INT, NULLABLE, <<PyInt(Len(NotNone(column.values)))>>))

\* Mutant: divides by the number of slots instead of the non-NULL ones.
AvgFunction_check_types(arg) == Return(tq_FLOAT)

AvgFunction_evaluate_alllen(num_rows, column) ==
    LET filtered_args == NotNone(column.values)
        s == PySum(filtered_args) IN
    IF filtered_args = <<>>
    THEN Return(Column(tq_FLOAT, NULLABLE, <<None>>))
    ELSE IF Raised(s) THEN s
    ELSE Return(Column(tq_FLOAT, NULLABLE,
                       <<PyFloat(s.val.v, Len(column.values))>>))

AvgFunction_evaluate(num_rows, column) ==
    LET filtered_args == NotNone(column.values)
        s == PySum(filtered_args) IN
    IF filtered_args = <<>>
    THEN Return(Column(tq_FLOAT, NULLABLE, <<None>>))
    ELSE IF Raised(s) THEN s
    ELSE Return(Column(tq_FLOAT, NULLABLE,
                       <<PyFloat(s.val.v, Len(filtered_args))>>))

CountDistinctFunction_check_types(arg) == Return(tq_INT)

\* len(set(column.values)); a list is unhashable and cannot enter a set.
CountDistinctFunction_evaluate(num_rows, column) ==
    IF \E i \in DOMAIN column.values : column.values[i].t = "list"
    THEN Raise("TypeError")
    ELSE Return(Column(tq_INT, NULLABLE,
                       <<PyInt(Cardinality(Elems(column.values)))>>))

StddevSampFunction_check_types(arg) == Return(tq_FLOAT)

StddevSampFunction_evaluate(num_rows, column) ==
    Return(Column(tq_FLOAT, NULLABLE, <<PyFloat(0, 1)>>))

\* sorted_args[index], index >= -len: a negative index counts from the end.
PyIndex(s, index) ==
    IF index >= Len(s) \/ index < -Len(s) THEN Raise("IndexError")
    ELSE IF index < 0 THEN Return(s[Len(s) + index + 1])
    ELSE Return(s[index + 1])

\* Mutant: the clamp to the last index is missing.
QuantileAt_noclamp(sorted_args, num_quantiles, i) ==
    IF num_quantiles - 1 = 0 THEN Raise("ZeroDivisionError")
    ELSE PyIndex(sorted_args,
                 (Len(sorted_args) * i) \div (num_quantiles - 1))

\* The list comprehension of QuantilesFunction.evaluate: one element per
\* i in xrange(num_quantiles), the first failing element aborts it.
QuantileAt(sorted_args, num_quantiles, i) ==
    IF num_quantiles - 1 = 0 THEN Raise("ZeroDivisionError")
    ELSE PyIndex(sorted_args,
                 Min2((Len(sorted_args) * i) \div (num_quantiles - 1),
                      Len(sorted_args) - 1))

\* QuantilesFunction.evaluate: the [None] set for a group without values is
\* overwritten by the list comprehension that follows it.
QuantilesFunction_check_types(arg_list_type, num_quantiles_type) ==
    IF num_quantiles_type # tq_INT THEN Raise("SyntaxError")
    ELSE Return(tq_INT)

QuantilesFunction_evaluate(num_rows, column, num_quantiles_list) ==
    LET sorted_args == Sorted(NotNone(column.values)) IN
    IF Len(num_quantiles_list.values) = 0 THEN Raise("IndexError")
    ELSE
        LET num_quantiles == num_quantiles_list.values[1].v
            n == IF num_quantiles > 0 THEN num_quantiles ELSE 0
            qs == [j \in 1..n |-> QuantileAt(sorted_args, num_quantiles, j - 1)]
        IN
        IF \E j \in 1..n : Raised(qs[j])
        THEN qs[CHOOSE j \in 1..n :
                    Raised(qs[j]) /\ \A h \in 1..(j - 1) : ~Raised(qs[h])]
        ELSE Return(Column(tq_INT, REPEATED,
                           <<PyList([j \in 1..n |-> qs[j].val])>>))

(***************************************************************************)
(* _ensure_literal: the assertion compares every value with the first; an  *)
(* empty sequence passes the assertion and fails on regexps[0].            *)
(***************************************************************************)
ensure_literal(regexps) ==
    IF \E i \in DOMAIN regexps : regexps[i] # regexps[1]
    THEN Raise("AssertionError")
    ELSE IF Len(regexps) = 0 THEN Raise("IndexError")
    ELSE Return(regexps[1])

\* The first exception raised while a list is built row by row, or the
\* list of the rows' values when no row raises.
MapRows(rows) ==
    IF \E i \in DOMAIN rows : Raised(rows[i])
    THEN rows[CHOOSE i \in DOMAIN rows :
                  Raised(rows[i]) /\ \A h \in 1..(i - 1) : ~Raised(rows[h])]
    ELSE Return([i \in DOMAIN rows |-> rows[i].val])

(***************************************************************************)
(* datetime.datetime: naive timestamps in the proleptic Gregorian          *)
(* calendar, years MINYEAR..MAXYEAR.                                       *)
(***************************************************************************)
MINYEAR == 1
MAXYEAR == 9999

PyStr(s) == [t |-> "str", v |-> s]
PyDatetime(r) == [t |-> "datetime", v |-> r]

IsLeap(year) == year % 4 = 0 /\ (year % 100 # 0 \/ year % 400 = 0)

DaysInMonth(year, month) ==
    IF month = 2 THEN (IF IsLeap(year) THEN 29 ELSE 28)
    ELSE IF month \in {4, 6, 9, 11} THEN 30
    ELSE 31

\* datetime(year, month, day, ...): ValueError when a field is out of range.
NewDatetime(year, month, day, hour, minute, second, microsecond) ==
    IF \/ year < MINYEAR \/ year > MAXYEAR
       \/ month < 1 \/ month > 12
       \/ day < 1 \/ day > DaysInMonth(year, month)
    THEN Raise("ValueError")
    ELSE Return(PyDatetime([year |-> year, month |-> month, day |-> day,
                            hour |-> hour, minute |-> minute,
                            second |-> second, microsecond |-> microsecond]))

\* Days from 1970-01-01 to the date and back (proleptic Gregorian).
DaysFromCivil(year, month, day) ==
    LET y == IF month <= 2 THEN year - 1 ELSE year
        era == y \div 400
        yoe == y - era * 400
        mp == IF month > 2 THEN month - 3 ELSE month + 9
        doy == (153 * mp + 2) \div 5 + day - 1
        doe == yoe * 365 + yoe \div 4 - yoe \div 100 + doy
    IN era * 146097 + doe - 719468

CivilFromDays(days) ==
    LET z == days + 719468
        era == z \div 146097
        doe == z - era * 146097
        yoe == (doe - doe \div 1460 + doe \div 36524 - doe \div 146096) \div 365
        doy == doe - (365 * yoe + yoe \div 4 - yoe \div 100)
        mp == (5 * doy + 2) \div 153
        d == doy - (153 * mp + 2) \div 5 + 1
        m == IF mp < 10 THEN mp + 3 ELSE mp - 9
        y == yoe + era * 400 + (IF m <= 2 THEN 1 ELSE 0)
    IN [year |-> y, month |-> m, day |-> d]

\* ts + datetime.timedelta(days=days, seconds=seconds): OverflowError when
\* the sum leaves MINYEAR..MAXYEAR.
AddTimedelta(ts, days, seconds) ==
    LET sod == ts.v.hour * 3600 + ts.v.minute * 60 + ts.v.second + seconds
        total == DaysFromCivil(ts.v.year, ts.v.month, ts.v.day) + days
                 + sod \div 86400
        rest == sod % 86400
        date == CivilFromDays(total)
    IN
    IF \/ total < DaysFromCivil(MINYEAR, 1, 1)
       \/ total > DaysFromCivil(MAXYEAR, 12, 31)
    THEN Raise("OverflowError")
    ELSE NewDatetime(date.year, date.month, date.day, rest \div 3600,
                     (rest % 3600) \div 60, rest % 60, ts.v.microsecond)

(***************************************************************************)
(* DateAddFunction                                                         *)
(***************************************************************************)
VALID_INTERVALS == {"YEAR", "MONTH", "DAY", "HOUR", "MINUTE", "SECOND"}

\* adder(ts) of the MONTH branch; ts.replace(year=..., month=...) builds a
\* new datetime and so validates the day against the new month.
DateAdd_adder(ts, num_intervals) ==
    LET year == ts.v.year + (ts.v.month - 1 + num_intervals) \div 12
        month == 1 + ((ts.v.month - 1 + num_intervals) % 12)
    IN NewDatetime(year, month, ts.v.day, ts.v.hour, ts.v.minute,
                   ts.v.second, ts.v.microsecond)

DateAdd_value(ts, num_intervals, interval_type) ==
    IF interval_type = "MONTH" THEN DateAdd_adder(ts, num_intervals)
    ELSE IF interval_type = "YEAR"
    THEN NewDatetime(ts.v.year + num_intervals, ts.v.month, ts.v.day,
                     ts.v.hour, ts.v.minute, ts.v.second, ts.v.microsecond)
    ELSE IF interval_type = "DAY" THEN AddTimedelta(ts, num_intervals, 0)
    ELSE IF interval_type = "HOUR" THEN AddTimedelta(ts, 0, num_intervals * 3600)
    ELSE IF interval_type = "MINUTE" THEN AddTimedelta(ts, 0, num_intervals * 60)
    ELSE AddTimedelta(ts, 0, num_intervals)

DateAddFunction_evaluate(num_rows, timestamps, nums_intervals, interval_types) ==
    LET num_intervals == ensure_literal(nums_intervals.values)
        interval_type == ensure_literal(interval_types.values) IN
    IF Raised(num_intervals) THEN num_intervals
    ELSE IF Raised(interval_type) THEN interval_type
    ELSE IF interval_type.val.v \notin VALID_INTERVALS THEN Raise("ValueError")
    ELSE
        LET values == MapRows([i \in DOMAIN timestamps.values |->
                          DateAdd_value(timestamps.values[i],
                                        num_intervals.val.v,
                                        interval_type.val.v)]) IN
        IF Raised(values) THEN values
        ELSE Return(Column(tq_TIMESTAMP, NULLABLE, values.val))

(***************************************************************************)
(* Regular expressions (the re module).  A string is the sequence of its   *)
(* characters.  The patterns of the model are literal characters with      *)
(* capturing groups that are not nested: the pattern matches where its     *)
(* characters without the parentheses occur, and a group captures the      *)
(* characters between its parentheses.                                     *)
(***************************************************************************)
RECURSIVE WithoutParens(_)
WithoutParens(p) ==
    IF p = <<>> THEN <<>>
    ELSE IF Head(p) \in {"(", ")"} THEN WithoutParens(Tail(p))
    ELSE <<Head(p)>> \o WithoutParens(Tail(p))

\* len(match_result.groups()): the number of groups of the pattern.
GroupCount(p) == Cardinality({i \in DOMAIN p : p[i] = "("})

\* match_result.group(1): the text inside the first pair of parentheses.
Group1(p) ==
    LET open == CHOOSE i \in DOMAIN p :
                    p[i] = "(" /\ \A h \in 1..(i - 1) : p[h] # "("
        close == CHOOSE i \in DOMAIN p :
                    i > open /\ p[i] = ")" /\ \A h \in (open + 1)..(i - 1) : p[h] # ")"
    IN SubSeq(p, open + 1, close - 1)

\* The positions at which the pattern's text occurs in s.
MatchStarts(p, s) ==
    LET lit == WithoutParens(p) IN
    {i \in 1..(Len(s) - Len(lit) + 1) : SubSeq(s, i, i + Len(lit) - 1) = lit}

\* re.search(regexp, s) is not None
re_search(p, s) == MatchStarts(p, s) # {}

\* re.sub(regexp, replacement, s): every non-overlapping occurrence, from
\* the left, is replaced.
RECURSIVE re_sub(_, _, _)
re_sub(p, replacement, s) ==
    LET lit == WithoutParens(p) IN
    IF s = <<>> THEN <<>>
    ELSE IF 1 \in MatchStarts(p, s)
    THEN replacement \o re_sub(p, replacement, SubSeq(s, Len(lit) + 1, Len(s)))
    ELSE <<Head(s)>> \o re_sub(p, replacement, Tail(s))

(***************************************************************************)
(* RegexpMatchFunction, RegexpExtractFunction, RegexpReplaceFunction       *)
(***************************************************************************)
RegexpMatchFunction_evaluate(num_rows, strings, regexps) ==
    LET regexp == ensure_literal(regexps.values) IN
    IF Raised(regexp) THEN regexp
    ELSE Return(Column(tq_BOOL, NULLABLE,
             [i \in DOMAIN strings.values |->
                 PyBool(re_search(regexp.val.v, strings.values[i].v))]))

\* One pass of the loop of RegexpExtractFunction.evaluate: the assertion on
\* the number of groups runs only for a row the pattern matches.
RegexpExtract_row(regexp, s) ==
    IF ~re_search(regexp, s) THEN Return(None)
    ELSE IF GroupCount(regexp) # 1 THEN Raise("AssertionError")
    ELSE Return(PyStr(Group1(regexp)))

RegexpExtractFunction_evaluate(num_rows, strings, regexps) ==
    LET regexp == ensure_literal(regexps.values) IN
    IF Raised(regexp) THEN regexp
    ELSE
        LET values == MapRows([i \in DOMAIN strings.values |->
                          RegexpExtract_row(regexp.val.v, strings.values[i].v)])
        IN
        IF Raised(values) THEN values
        ELSE Return(Column(tq_STRING, NULLABLE, values.val))

RegexpReplaceFunction_evaluate(num_rows, strings, regexps, replacements) ==
    LET regexp == ensure_literal(regexps.values)
        replacement == ensure_literal(replacements.values) IN
    IF Raised(regexp) THEN regexp
    ELSE IF Raised(replacement) THEN replacement
    ELSE Return(Column(tq_STRING, NULLABLE,
             [i \in DOMAIN strings.values |->
                 PyStr(re_sub(regexp.val.v, replacement.val.v,
                              strings.values[i].v))]))

(***************************************************************************)
(* NthFunction                                                             *)
(***************************************************************************)
NthFunction_safe_index(rep_elem, index) ==
    IF IsNone(rep_elem) \/ rep_elem.v = <<>> THEN None
    ELSE IF index <= 0 \/ index > Len(rep_elem.v) THEN None
    ELSE rep_elem.v[index]

\* The index is the value of the first row, whatever the other rows hold.
NthFunction_evaluate(num_rows, index_list, column) ==
    IF Len(index_list.values) = 0 THEN Raise("IndexError")
    ELSE
        LET index == index_list.values[1].v IN
        Return(Column(tq_INT, NULLABLE,
            [i \in DOMAIN column.values |->
                NthFunction_safe_index(column.values[i], index)]))

(***************************************************************************)
(* TimestampFunction, TimestampShiftFunction, timestamp_to_usec.           *)
(*                                                                         *)
(* An int that counts microseconds since the epoch is written              *)
(* <<seconds, microseconds>>, standing for seconds * 10^6 + microseconds   *)
(* with 0 <= microseconds < 10^6, so that the arithmetic stays in the      *)
(* range of the checker.  The conversions through float (float(ts) / 1E6,  *)
(* 1E6 * float_timestamp) are taken as exact.                              *)
(***************************************************************************)
PyUsec(seconds, microseconds) == [t |-> "int", v |-> <<seconds, microseconds>>]

\* The int n >= 0 in that notation.
PyIntUsec(n) == PyUsec(n \div 1000000, n % 1000000)

\* arrow.get(float(ts) / 1E6).to('UTC').naive
utc_from_usec(ts) ==
    LET date == CivilFromDays(ts.v[1] \div 86400)
        rest == ts.v[1] % 86400 IN
    PyDatetime([year |-> date.year, month |-> date.month, day |-> date.day,
                hour |-> rest \div 3600, minute |-> (rest % 3600) \div 60,
                second |-> rest % 60, microsecond |-> ts.v[2]])

\* TimestampFunction.evaluate on a TIMESTAMP column (returned as it is) or
\* an INT column of microseconds since the epoch.
TimestampFunction_evaluate(num_rows, column) ==
    IF column.type = tq_TIMESTAMP THEN Return(column)
    ELSE Return(Column(tq_TIMESTAMP, NULLABLE,
             [i \in DOMAIN column.values |-> utc_from_usec(column.values[i])]))

\* int(1E6 * arrow.get(dt).float_timestamp)
timestamp_to_usec_extractor(dt) ==
    PyUsec(DaysFromCivil(dt.v.year, dt.v.month, dt.v.day) * 86400
               + dt.v.hour * 3600 + dt.v.minute * 60 + dt.v.second,
           dt.v.microsecond)

\* TimestampExtractFunction.evaluate of timestamp_to_usec
timestamp_to_usec_evaluate(num_rows, column1) ==
    Return(Column(tq_INT, NULLABLE,
        [i \in DOMAIN column1.values |->
            timestamp_to_usec_extractor(column1.values[i])]))

hour_truncate(ts) ==
    PyDatetime([ts.v EXCEPT !.minute = 0, !.second = 0, !.microsecond = 0])
\* Mutant: the hour is zeroed without truncating to the hour first.
day_truncate_hour_only(ts) == PyDatetime([ts.v EXCEPT !.hour = 0])

day_truncate(ts) == PyDatetime([hour_truncate(ts).v EXCEPT !.hour = 0])
month_truncate(ts) == PyDatetime([day_truncate(ts).v EXCEPT !.day = 1])
year_truncate(ts) == PyDatetime([month_truncate(ts).v EXCEPT !.month = 1])

\* map(truncate_fn, timestamps.values); ts.replace on an int raises
\* AttributeError.
TimestampShiftFunction_evaluate(interval, num_rows, timestamps) ==
    IF timestamps.type # tq_TIMESTAMP /\ timestamps.values # <<>>
    THEN Raise("AttributeError")
    ELSE Return(Column(tq_TIMESTAMP, NULLABLE,
        [i \in DOMAIN timestamps.values |->
            IF interval = "hour" THEN hour_truncate(timestamps.values[i])
            ELSE IF interval = "day" THEN day_truncate(timestamps.values[i])
            ELSE IF interval = "month" THEN month_truncate(timestamps.values[i])
            ELSE year_truncate(timestamps.values[i])]))

(***************************************************************************)
(* UnixTimestampToWeekdayFunction                                          *)
(***************************************************************************)
\* ts.isoweekday(): 1 is Monday, 7 is Sunday; 1970-01-01 was a Thursday.
isoweekday(ts) == ((DaysFromCivil(ts.v.year, ts.v.month, ts.v.day) + 3) % 7) + 1

\* Mutant: the ISO weekday is used as it is, Sunday being 7.
weekday_from_ts_iso(ts) == isoweekday(ts)

weekday_from_ts(ts) == isoweekday(ts) % 7

UnixTimestampToWeekdayFunction_evaluate(num_rows, unix_timestamps, weekdays) ==
    LET weekday == ensure_literal(weekdays.values) IN
    IF Raised(weekday) THEN weekday
    ELSE
        LET timestamps == TimestampFunction_evaluate(num_rows, unix_timestamps)
            truncated == TimestampShiftFunction_evaluate("day", num_rows,
                                                         timestamps.val)
            values == MapRows([i \in DOMAIN truncated.val.values |->
                          AddTimedelta(truncated.val.values[i],
                              weekday.val.v
                                  - weekday_from_ts(truncated.val.values[i]),
                              0)])
        IN
        IF Raised(values) THEN values
        ELSE timestamp_to_usec_evaluate(num_rows,
                 Column(tq_TIMESTAMP, NULLABLE, values.val))

(***************************************************************************)
(* StrftimeFunction.  A format is the sequence of its directives and       *)
(* literal characters; the directives of the model are %Y %m %d %H %M %S.  *)
(***************************************************************************)
DigitChars == <<"0", "1", "2", "3", "4", "5", "6", "7", "8", "9">>
Pad2(n) == <<DigitChars[(n \div 10) + 1], DigitChars[(n % 10) + 1]>>
Pad4(n) == Pad2(n \div 100) \o Pad2(n % 100)

strftime_piece(ts, token) ==
    IF token = "%Y" THEN Pad4(ts.v.year)
    ELSE IF token = "%m" THEN Pad2(ts.v.month)
    ELSE IF token = "%d" THEN Pad2(ts.v.day)
    ELSE IF token = "%H" THEN Pad2(ts.v.hour)
    ELSE IF token = "%M" THEN Pad2(ts.v.minute)
    ELSE IF token = "%S" THEN Pad2(ts.v.second)
    ELSE <<token>>

RECURSIVE strftime(_, _)
strftime(ts, format) ==
    IF format = <<>> THEN <<>>
    ELSE strftime_piece(ts, Head(format)) \o strftime(ts, Tail(format))

StrftimeFunction_evaluate(num_rows, unix_timestamps, formats) ==
    LET format_str == ensure_literal(formats.values) IN
    IF Raised(format_str) THEN format_str
    ELSE
        LET timestamps == TimestampFunction_evaluate(num_rows, unix_timestamps)
        IN
        Return(Column(tq_STRING, NULLABLE,
            [i \in DOMAIN timestamps.val.values |->
                PyStr(strftime(timestamps.val.values[i], format_str.val.v))]))

(***************************************************************************)
(* TimestampExtractFunction and the extractors of _FUNCTIONS.              *)
(***************************************************************************)
\* The Function objects that are stages of a composition:
\* TimestampFunction(), TimestampExtractFunction(extractor, return_type)
\* and TimestampShiftFunction(interval).  An extractor is written by the
\* name of the _FUNCTIONS entry that holds its lambda.
TimestampFunction == [cls |-> "TimestampFunction", param |-> "", type |-> ""]
TimestampExtractFunction(extractor, return_type) ==
    [cls |-> "TimestampExtractFunction", param |-> extractor,
     type |-> return_type]
TimestampShiftFunction(interval) ==
    [cls |-> "TimestampShiftFunction", param |-> interval, type |-> ""]
timestamp_to_usec == TimestampExtractFunction("timestamp_to_usec", tq_INT)

\* TimestampShiftFunction.__init__
TimestampShiftFunction_init(interval) ==
    IF interval \in {"day", "hour", "month", "year"}
    THEN Return(TimestampShiftFunction(interval))
    ELSE Raise("AssertionError")

\* dt.timetuple().tm_yday - 1: days since January 1 of dt's year.
yday(dt) ==
    DaysFromCivil(dt.v.year, dt.v.month, dt.v.day)
        - DaysFromCivil(dt.v.year, 1, 1)

\* dt.strftime('%U'): the week of the year, weeks starting on Sunday, the
\* days before the year's first Sunday being week 00.
strftime_U(dt) == Pad2((yday(dt) + 7 - weekday_from_ts(dt)) \div 7)

\* int(s, 10) of a string of decimal digits.
DigitValue(c) == (CHOOSE i \in 1..10 : DigitChars[i] = c) - 1
RECURSIVE int10(_)
int10(s) ==
    IF s = <<>> THEN 0
    ELSE 10 * int10(SubSeq(s, 1, Len(s) - 1)) + DigitValue(s[Len(s)])

\* The lambdas handed to TimestampExtractFunction.
extractor_apply(extractor, dt) ==
    IF extractor = "timestamp_to_usec" THEN timestamp_to_usec_extractor(dt)
    ELSE IF extractor = "quarter" THEN PyIntUsec((dt.v.month \div 3) + 1)
    ELSE IF extractor = "week" THEN PyIntUsec(int10(strftime_U(dt)) + 1)
    ELSE IF extractor = "month" THEN PyIntUsec(dt.v.month)
    ELSE IF extractor = "day" THEN PyIntUsec(dt.v.day)
    ELSE PyIntUsec(dt.v.year)

TimestampExtractFunction_check_types(self, type1) ==
    IF type1 # tq_TIMESTAMP THEN Raise("TypeError") ELSE Return(self.type)

\* map(self.extractor, column1.values).  The extractors read attributes
\* of a datetime (dt.month, dt.strftime): handed an int they raise
\* AttributeError.  timestamp_to_usec, which hands its argument to
\* arrow.get, is applied to timestamps only.
TimestampExtractFunction_evaluate(self, num_rows, column1) ==
    IF column1.type # tq_TIMESTAMP /\ column1.values # <<>>
    THEN Raise("AttributeError")
    ELSE Return(Column(self.type, NULLABLE,
             [i \in DOMAIN column1.values |->
                 extractor_apply(self.param, column1.values[i])]))

TimestampFunction_check_types(type1) ==
    IF type1 \notin {tq_STRING, tq_INT, tq_TIMESTAMP} THEN Raise("TypeError")
    ELSE Return(tq_TIMESTAMP)

TimestampShiftFunction_check_types(type1) ==
    IF type1 # tq_TIMESTAMP THEN Raise("TypeError")
    ELSE Return(tq_TIMESTAMP)

(***************************************************************************)
(* Compose                                                                 *)
(***************************************************************************)
\* f.check_types(*types) and f.evaluate(num_rows, *args) of a stage f; all
\* stages take one argument, and a call with another number of arguments
\* is Python's TypeError.
Function_check_types(f, types) ==
    IF Len(types) # 1 THEN Raise("TypeError")
    ELSE IF f.cls = "TimestampFunction"
    THEN TimestampFunction_check_types(types[1])
    ELSE IF f.cls = "TimestampExtractFunction"
    THEN TimestampExtractFunction_check_types(f, types[1])
    ELSE TimestampShiftFunction_check_types(types[1])

Function_evaluate(f, num_rows, arg_lists) ==
    IF Len(arg_lists) # 1 THEN Raise("TypeError")
    ELSE IF f.cls = "TimestampFunction"
    THEN TimestampFunction_evaluate(num_rows, arg_lists[1])
    ELSE IF f.cls = "TimestampExtractFunction"
    THEN TimestampExtractFunction_evaluate(f, num_rows, arg_lists[1])
    ELSE TimestampShiftFunction_evaluate(f.param, num_rows, arg_lists[1])

\* list(reversed(functions))
reversed(functions) ==
    [i \in 1..Len(functions) |-> functions[Len(functions) + 1 - i]]

\* Mutant: the functions are kept in the order they are listed.
Compose_init_listed(functions) ==
    IF Len(functions) > 1 THEN Return([functions |-> functions])
    ELSE Raise("AssertionError")

\* Compose.__init__: the object, or the failed assertion.
Compose_init(functions) ==
    IF Len(reversed(functions)) > 1
    THEN Return([functions |-> reversed(functions)])
    ELSE Raise("AssertionError")

\* for f in self.functions[1:]: result = f.check_types(result)
RECURSIVE Compose_check_types_loop(_, _)
Compose_check_types_loop(functions, res) ==
    IF Raised(res) \/ functions = <<>> THEN res
    ELSE Compose_check_types_loop(Tail(functions),
             Function_check_types(Head(functions), <<res.val>>))

Compose_check_types(self, types) ==
    Compose_check_types_loop(Tail(self.functions),
        Function_check_types(self.functions[1], types))

\* for f in self.functions[1:]: result = f.evaluate(num_rows, result)
RECURSIVE Compose_evaluate_loop(_, _, _)
Compose_evaluate_loop(functions, num_rows, res) ==
    IF Raised(res) \/ functions = <<>> THEN res
    ELSE Compose_evaluate_loop(Tail(functions), num_rows,
             Function_evaluate(Head(functions), num_rows, <<res.val>>))

Compose_evaluate(self, num_rows, arg_lists) ==
    Compose_evaluate_loop(Tail(self.functions), num_rows,
        Function_evaluate(self.functions[1], num_rows, arg_lists))

\* The entries of _FUNCTIONS that are compositions, as they are listed.
FUNCTIONS(name) ==
    IF name = "quarter"
    THEN <<TimestampExtractFunction("quarter", tq_INT), TimestampFunction>>
    ELSE IF name = "week"
    THEN <<TimestampExtractFunction("week", tq_INT), TimestampFunction>>
    ELSE IF name = "month"
    THEN <<TimestampExtractFunction("month", tq_INT), TimestampFunction>>
    ELSE IF name = "parse_utc_usec"
    THEN <<timestamp_to_usec, TimestampFunction>>
    ELSE IF name = "utc_usec_to_day"
    THEN <<timestamp_to_usec, TimestampShiftFunction("day"), TimestampFunction>>
    ELSE <<timestamp_to_usec, TimestampShiftFunction("month"),
           TimestampFunction>>
ComposedFunctions ==
    {"quarter", "week", "month", "parse_utc_usec", "utc_usec_to_day",
     "utc_usec_to_month"}

(***************************************************************************)
(* The calls the model makes.                                              *)
(***************************************************************************)
AggValues == {None} \cup {PyInt(n) : n \in (-MaxVal)..MaxVal}

\* Rows of a REPEATED column.
RepeatedRows ==
    {PyList(<<>>), PyList(<<PyInt(1)>>), PyList(<<PyInt(0), PyInt(1)>>)}

AggColumns ==
    {Column(tq_INT, NULLABLE, vs) : vs \in SeqsUpTo(AggValues, MaxLen)}
    \cup {Column(tq_INT, REPEATED, vs) : vs \in SeqsUpTo(RepeatedRows, MaxLen)}

\* The column of the quantile count: one slot per row the caller passes.
NumQuantilesLists ==
    {Column(tq_INT, NULLABLE, vs) :
        vs \in SeqsUpTo({PyInt(k) : k \in 0..MaxK}, MaxRows)}

\* Groups of FLOAT and BOOL values, for the aggregates that take values of
\* any type.
FloatValues == {None, PyFloat(1, 2), PyFloat(3, 2)}
BoolValues == {None, PyBool(TRUE), PyBool(FALSE)}
TypedAggColumns ==
    {Column(tq_FLOAT, NULLABLE, vs) : vs \in SeqsUpTo(FloatValues, MaxLen)}
    \cup {Column(tq_BOOL, NULLABLE, vs) : vs \in SeqsUpTo(BoolValues, MaxLen)}

\* The call about to be made.
Call(f, a) == fn = f /\ args = a

AggregateCalls ==
    \E c \in AggColumns :
        \/ \E f \in AGGREGATE_FUNCTIONS \ {"quantiles"} :
               Call(f, [num_rows |-> 1, column |-> c])
        \/ \E q \in NumQuantilesLists :
               Call("quantiles",
                    [num_rows |-> 1, column |-> c, num_quantiles_list |-> q])

TypedAggregateCalls ==
    \E c \in TypedAggColumns, f \in {"sum", "count", "first"} :
        Call(f, [num_rows |-> 1, column |-> c])

ArithmeticCheckCalls ==
    \E o \in ArithmeticSymbols, t1 \in Types, t2 \in Types :
        Call("ArithmeticOperator.check_types",
             [op |-> o, type1 |-> t1, type2 |-> t2])

IfCheckCalls ==
    \E c \in Types, a \in Types, b \in Types :
        Call("IfFunction.check_types", [cond |-> c, arg1 |-> a, arg2 |-> b])

\* Timestamps: a common and a leap year; every month; the first day, the
\* 15th and the days on which months differ; midnight and the last
\* microsecond of the day.
Years == {2023, 2024}
TimesOfDay ==
    {[hour |-> 0, minute |-> 0, second |-> 0, microsecond |-> 0],
     [hour |-> 23, minute |-> 59, second |-> 59, microsecond |-> 999999]}
Datetimes ==
    {PyDatetime([year |-> y, month |-> m, day |-> d, hour |-> tod.hour,
                 minute |-> tod.minute, second |-> tod.second,
                 microsecond |-> tod.microsecond]) :
        <<y, m, d, tod>> \in
            {x \in Years \X (1..12) \X {1, 15, 28, 29, 30, 31} \X TimesOfDay :
                x[3] <= DaysInMonth(x[1], x[2])}}

\* A few timestamps for the columns of several rows.
FewDatetimes ==
    {PyDatetime([year |-> 2023, month |-> m, day |-> 31, hour |-> 0,
                 minute |-> 0, second |-> 0, microsecond |-> 0]) : m \in {1, 12}}

\* The columns of a call of num_rows rows: n slots each.
ColumnsOf(type, values, n) == {Column(type, NULLABLE, vs) : vs \in [1..n -> values]}

\* DATE_ADD on one row with every timestamp, count and unit (and a unit
\* that is not valid), and on 0..MaxRows rows with a few of each, the
\* count and unit columns literal or not.
DateAddCalls ==
    \/ \E ts \in Datetimes, c \in (-MaxCount)..MaxCount,
          u \in VALID_INTERVALS \cup {"WEEK"} :
           Call("date_add",
                [num_rows |-> 1,
                 timestamps |-> Column(tq_TIMESTAMP, NULLABLE, <<ts>>),
                 nums_intervals |-> Column(tq_INT, NULLABLE, <<PyInt(c)>>),
                 interval_types |-> Column(tq_STRING, NULLABLE, <<PyStr(u)>>)])
    \/ \E n \in 0..MaxRows :
           \E t \in ColumnsOf(tq_TIMESTAMP, FewDatetimes, n),
              c \in ColumnsOf(tq_INT, {PyInt(1), PyInt(2)}, n),
              u \in ColumnsOf(tq_STRING, {PyStr("MONTH"), PyStr("DAY")}, n) :
               Call("date_add", [num_rows |-> n, timestamps |-> t,
                                 nums_intervals |-> c, interval_types |-> u])

\* Strings and patterns over the characters a and b: patterns without a
\* group, with one group and with two groups.
Strings == {PyStr(<<>>), PyStr(<<"b">>), PyStr(<<"a", "b", "a">>)}
Patterns ==
    {PyStr(<<"a">>), PyStr(<<"(", "a", ")">>), PyStr(<<"(", "a", ")", "b">>),
     PyStr(<<"(", "a", ")", "(", "b", ")">>)}
Replacements == {PyStr(<<>>), PyStr(<<"c">>)}

RegexpCalls ==
    \E n \in 0..MaxRows :
        \E str \in ColumnsOf(tq_STRING, Strings, n),
           r \in ColumnsOf(tq_STRING, Patterns, n) :
            \/ \E f \in {"regexp_match", "regexp_extract"} :
                   Call(f, [num_rows |-> n, strings |-> str, regexps |-> r])
            \/ \E repl \in ColumnsOf(tq_STRING, Replacements, n) :
                   Call("regexp_replace",
                        [num_rows |-> n, strings |-> str, regexps |-> r,
                         replacements |-> repl])

NthCalls ==
    \E n \in 0..MaxRows :
        \E x \in ColumnsOf(tq_INT, {PyInt(k) : k \in 0..2}, n),
           c \in {Column(tq_INT, REPEATED, vs) : vs \in [1..n -> RepeatedRows]} :
            Call("nth", [num_rows |-> n, index_list |-> x, column |-> c])

\* Microseconds since the epoch: a Sunday morning, the last microsecond of
\* a Saturday, and a leap day.
UnixTimestamps ==
    {timestamp_to_usec_extractor(PyDatetime(r)) : r \in
        {[year |-> 2023, month |-> 12, day |-> 31, hour |-> 7, minute |-> 8,
          second |-> 9, microsecond |-> 10],
         [year |-> 2023, month |-> 12, day |-> 30, hour |-> 23, minute |-> 59,
          second |-> 59, microsecond |-> 999999],
         [year |-> 2024, month |-> 2, day |-> 29, hour |-> 0, minute |-> 0,
          second |-> 0, microsecond |-> 0]}}

Formats ==
    {PyStr(<<"%Y">>), PyStr(<<"%Y", "-", "%m", "-", "%d">>),
     PyStr(<<"%H", ":", "%M", ":", "%S">>)}

TimestampCalls ==
    \E n \in 0..MaxRows :
        \E t \in ColumnsOf(tq_INT, UnixTimestamps, n) :
            \/ \E f \in ColumnsOf(tq_STRING, Formats, n) :
                   Call("strftime_utc_usec",
                        [num_rows |-> n, unix_timestamps |-> t, formats |-> f])
            \/ \E w \in ColumnsOf(tq_INT, {PyInt(d) : d \in 0..6}, n) :
                   Call("utc_usec_to_week",
                        [num_rows |-> n, unix_timestamps |-> t, weekdays |-> w])

\* IFNULL on two aligned columns of 0..MaxRows rows.
IfNullCalls ==
    \E n \in 0..MaxRows :
        \E a \in ColumnsOf(tq_INT, AggValues, n),
           b \in ColumnsOf(tq_INT, AggValues, n) :
            Call("ifnull", [num_rows |-> n, arg1 |-> a, arg2 |-> b])

\* Compose(*functions).check_types(type): up to MaxStages stages, in every
\* order, on every type.
Stages ==
    {TimestampFunction, timestamp_to_usec,
     TimestampExtractFunction("month", tq_INT),
     TimestampShiftFunction("day"), TimestampShiftFunction("month")}

\* The stage lists the compiler evaluates are those whose types it has
\* checked: the last-listed stage accepts the argument type and every
\* stage accepts the type of the one listed after it.
RECURSIVE StagesAccept(_, _)
StagesAccept(functions, type) ==
    IF functions = <<>> THEN TRUE
    ELSE LET r == Function_check_types(functions[Len(functions)], <<type>>) IN
         IF Raised(r) THEN FALSE
         ELSE StagesAccept(SubSeq(functions, 1, Len(functions) - 1), r.val)

TimestampColumns(n) ==
    ColumnsOf(tq_TIMESTAMP, {utc_from_usec(t) : t \in UnixTimestamps}, n)
    \cup ColumnsOf(tq_INT, UnixTimestamps, n)

ComposeCalls ==
    \E fs \in SeqsUpTo(Stages, MaxStages) :
        \/ \E t \in Types :
               Call("Compose.check_types", [functions |-> fs, types |-> <<t>>])
        \/ \E n \in 0..MaxRows :
               \E c \in TimestampColumns(n) :
                   /\ timestamp_to_usec \notin Elems(fs)
                   /\ Len(fs) > 1 => StagesAccept(fs, c.type)
                   /\ Call("Compose.evaluate",
                           [functions |-> fs, num_rows |-> n,
                            arg_lists |-> <<c>>])

\* The composed entries of _FUNCTIONS on one row, a timestamp or an int of
\* microseconds.
OneRowTimestampColumns ==
    {Column(tq_TIMESTAMP, NULLABLE, <<ts>>) : ts \in Datetimes}
    \cup ColumnsOf(tq_INT, UnixTimestamps, 1)

ComposedCalls ==
    \E f \in ComposedFunctions, c \in OneRowTimestampColumns :
        Call(f, [num_rows |-> 1, column |-> c])

\* TimestampShiftFunction(interval).evaluate: the four intervals and one
\* that is none of them.
TimestampShiftCalls ==
    \E u \in {"hour", "day", "month", "year", "week"} :
        \/ \E c \in {Column(tq_TIMESTAMP, NULLABLE, <<ts>>) : ts \in Datetimes} :
               Call("TimestampShiftFunction.evaluate",
                    [interval |-> u, num_rows |-> 1, timestamps |-> c])
        \/ \E n \in 0..MaxRows :
               \E c \in ColumnsOf(tq_TIMESTAMP,
                                  {utc_from_usec(t) : t \in UnixTimestamps}, n) :
                   Call("TimestampShiftFunction.evaluate",
                        [interval |-> u, num_rows |-> n, timestamps |-> c])

Init ==
    /\ pc = "call"
    /\ result = NoResult
    /\ \/ ArithmeticCheckCalls
       \/ IfCheckCalls
       \/ AggregateCalls
       \/ TypedAggregateCalls
       \/ DateAddCalls
       \/ RegexpCalls
       \/ NthCalls
       \/ TimestampCalls
       \/ IfNullCalls
       \/ ComposeCalls
       \/ ComposedCalls
       \/ TimestampShiftCalls

Finish(r) ==
    /\ result' = r
    /\ pc' = "done"
    /\ UNCHANGED <<fn, args>>

ArithmeticCheckTypes ==
    /\ pc = "call"
    /\ fn = "ArithmeticOperator.check_types"
    /\ Finish(ArithmeticOperator_check_types(args.type1, args.type2))

IfCheckTypes ==
    /\ pc = "call"
    /\ fn = "IfFunction.check_types"
    /\ Finish(IfFunction_check_types(args.cond, args.arg1, args.arg2))

SumEvaluate ==
    /\ pc = "call"
    /\ fn = "sum"
    /\ Finish(SumFunction_evaluate(args.num_rows, args.column))

MinMaxEvaluate ==
    /\ pc = "call"
    /\ fn \in {"min", "max"}
    /\ Finish(MinMaxFunction_evaluate(fn, args.num_rows, args.column))

CountEvaluate ==
    /\ pc = "call"
    /\ fn = "count"
    /\ Finish(CountFunction_evaluate(args.num_rows, args.column))

AvgEvaluate ==
    /\ pc = "call"
    /\ fn = "avg"
    /\ Finish(AvgFunction_evaluate(args.num_rows, args.column))

CountDistinctEvaluate ==
    /\ pc = "call"
    /\ fn = "count_distinct"
    /\ Finish(CountDistinctFunction_evaluate(args.num_rows, args.column))

StddevSampEvaluate ==
    /\ pc = "call"
    /\ fn = "stddev_samp"
    /\ Finish(StddevSampFunction_evaluate(args.num_rows, args.column))

QuantilesEvaluate ==
    /\ pc = "call"
    /\ fn = "quantiles"
    /\ Finish(QuantilesFunction_evaluate(args.num_rows, args.column,
                                         args.num_quantiles_list))

FirstEvaluate ==
    /\ pc = "call"
    /\ fn = "first"
    /\ Finish(FirstFunction_evaluate(args.num_rows, args.column))

DateAddEvaluate ==
    /\ pc = "call"
    /\ fn = "date_add"
    /\ Finish(DateAddFunction_evaluate(args.num_rows, args.timestamps,
                                       args.nums_intervals, args.interval_types))

RegexpMatchEvaluate ==
    /\ pc = "call"
    /\ fn = "regexp_match"
    /\ Finish(RegexpMatchFunction_evaluate(args.num_rows, args.strings,
                                           args.regexps))

RegexpExtractEvaluate ==
    /\ pc = "call"
    /\ fn = "regexp_extract"
    /\ Finish(RegexpExtractFunction_evaluate(args.num_rows, args.strings,
                                             args.regexps))

RegexpReplaceEvaluate ==
    /\ pc = "call"
    /\ fn = "regexp_replace"
    /\ Finish(RegexpReplaceFunction_evaluate(args.num_rows, args.strings,
                                             args.regexps, args.replacements))

NthEvaluate ==
    /\ pc = "call"
    /\ fn = "nth"
    /\ Finish(NthFunction_evaluate(args.num_rows, args.index_list, args.column))

StrftimeEvaluate ==
    /\ pc = "call"
    /\ fn = "strftime_utc_usec"
    /\ Finish(StrftimeFunction_evaluate(args.num_rows, args.unix_timestamps,
                                        args.formats))

UnixTimestampToWeekdayEvaluate ==
    /\ pc = "call"
    /\ fn = "utc_usec_to_week"
    /\ Finish(UnixTimestampToWeekdayFunction_evaluate(
                  args.num_rows, args.unix_timestamps, args.weekdays))

IfNullEvaluate ==
    /\ pc = "call"
    /\ fn = "ifnull"
    /\ Finish(IfNullFunction_evaluate(args.num_rows, args.arg1, args.arg2))

\* Compose(*functions).check_types(*types)
ComposeCheckTypes ==
    /\ pc = "call"
    /\ fn = "Compose.check_types"
    /\ LET self == Compose_init(args.functions) IN
       Finish(IF Raised(self) THEN self
              ELSE Compose_check_types(self.val, args.types))

\* Compose(*functions).evaluate(num_rows, *args)
ComposeEvaluate ==
    /\ pc = "call"
    /\ fn = "Compose.evaluate"
    /\ LET self == Compose_init(args.functions) IN
       Finish(IF Raised(self) THEN self
              ELSE Compose_evaluate(self.val, args.num_rows, args.arg_lists))

\* get_func(name).evaluate(num_rows, column) for a composed entry.
ComposedEvaluate ==
    /\ pc = "call"
    /\ fn \in ComposedFunctions
    /\ Finish(Compose_evaluate(Compose_init(FUNCTIONS(fn)).val, args.num_rows,
                               <<args.column>>))

\* TimestampShiftFunction(interval).evaluate(num_rows, timestamps)
TimestampShiftEvaluate ==
    /\ pc = "call"
    /\ fn = "TimestampShiftFunction.evaluate"
    /\ LET self == TimestampShiftFunction_init(args.interval) IN
       Finish(IF Raised(self) THEN self
              ELSE TimestampShiftFunction_evaluate(self.val.param,
                       args.num_rows, args.timestamps))

Next ==
    \/ ArithmeticCheckTypes
    \/ IfCheckTypes
    \/ SumEvaluate
    \/ MinMaxEvaluate
    \/ CountEvaluate
    \/ AvgEvaluate
    \/ CountDistinctEvaluate
    \/ StddevSampEvaluate
    \/ QuantilesEvaluate
    \/ FirstEvaluate
    \/ DateAddEvaluate
    \/ RegexpMatchEvaluate
    \/ RegexpExtractEvaluate
    \/ RegexpReplaceEvaluate
    \/ NthEvaluate
    \/ StrftimeEvaluate
    \/ UnixTimestampToWeekdayEvaluate
    \/ IfNullEvaluate
    \/ ComposeCheckTypes
    \/ ComposeEvaluate
    \/ ComposedEvaluate
    \/ TimestampShiftEvaluate

Spec == Init /\ [][Next]_vars

Done(f) == pc = "done" /\ fn = f

(***************************************************************************)
(* C1: for every arithmetic operator and every pair of operand types,      *)
(* check_types returns FLOAT if either operand is FLOAT and INT otherwise  *)
(* when both operands are INT or FLOAT, and raises a type error when       *)
(* either operand is of another type.                                      *)
(***************************************************************************)
C1_ArithmeticPromotion ==
    Done("ArithmeticOperator.check_types") =>
        IF args.type1 \in {tq_INT, tq_FLOAT} /\ args.type2 \in {tq_INT, tq_FLOAT}
        THEN result = Return(IF tq_FLOAT \in {args.type1, args.type2}
                             THEN tq_FLOAT ELSE tq_INT)
        ELSE result = Raise("TypeError")

\* A mixed INT/FLOAT pair was checked and the result is FLOAT.
C1_Witness ==
    /\ Done("ArithmeticOperator.check_types")
    /\ args.type1 = tq_INT /\ args.type2 = tq_FLOAT
    /\ result = Return(tq_FLOAT)

(***************************************************************************)
(* C2: IF.check_types with a BOOL condition returns the other branch's     *)
(* type when one branch is the untyped-null type, the common type when     *)
(* both branches are non-null and equal, and raises a type error when they *)
(* are non-null and unequal; with a condition that is not BOOL it raises   *)
(* whatever the branch types are.                                          *)
(***************************************************************************)
C2_IfTypeUnification ==
    Done("IfFunction.check_types") =>
        LET a == args.arg1
            b == args.arg2 IN
        /\ args.cond # tq_BOOL => Raised(result)
        /\ args.cond = tq_BOOL =>
            /\ a = tq_NONETYPE => result = Return(b)
            /\ b = tq_NONETYPE => result = Return(a)
            /\ (a # tq_NONETYPE /\ b # tq_NONETYPE /\ a = b) => result = Return(a)
            /\ (a # tq_NONETYPE /\ b # tq_NONETYPE /\ a # b) =>
                   result = Raise("TypeError")

\* A null "then" branch was unified with a STRING "else" branch.
C2_Witness ==
    /\ Done("IfFunction.check_types")
    /\ args.cond = tq_BOOL /\ args.arg1 = tq_NONETYPE /\ args.arg2 = tq_STRING
    /\ result = Return(tq_STRING)

(***************************************************************************)
(* Definitions the aggregate claims are stated with; they describe a group *)
(* by counting slots, independently of the functions above.                *)
(***************************************************************************)
IsAggregateCall == pc = "done" /\ fn \in AGGREGATE_FUNCTIONS
ScalarGroup == args.column.mode = NULLABLE /\ args.column.type = tq_INT
NonNullSlots == {i \in DOMAIN args.column.values : ~IsNone(args.column.values[i])}
NullSlots == {i \in DOMAIN args.column.values : IsNone(args.column.values[i])}
Occurrences(x) == Cardinality({i \in NonNullSlots : args.column.values[i].v = x})
GroupInts == {args.column.values[i].v : i \in NonNullSlots}

RECURSIVE GroupTotalFrom(_)
GroupTotalFrom(x) ==
    IF x > MaxVal THEN 0 ELSE x * Occurrences(x) + GroupTotalFrom(x + 1)
GroupTotal == GroupTotalFrom(-MaxVal)

\* The value at 0-based position j of the group's non-NULL values in
\* ascending order: fewer than j+1 values are below it, at least j+1 are
\* not above it.
RankedValue(j) ==
    CHOOSE x \in GroupInts :
        /\ Cardinality({i \in NonNullSlots : args.column.values[i].v < x}) <= j
        /\ Cardinality({i \in NonNullSlots : args.column.values[i].v <= x}) > j
GroupMin == CHOOSE x \in GroupInts : \A y \in GroupInts : x <= y
GroupMax == CHOOSE x \in GroupInts : \A y \in GroupInts : x >= y

(***************************************************************************)
(* C3: every function of the aggregate registry, evaluated with            *)
(* num_rows = 1 on a column of any length (0 included) and either mode,    *)
(* returns a column whose values have length exactly 1.                    *)
(***************************************************************************)
C3_AggregateReturnsOneValue ==
    (IsAggregateCall /\ args.num_rows = 1) =>
        /\ Returned(result)
        /\ Len(result.val.values) = 1

(***************************************************************************)
(* C4: QUANTILES(col, k) on a column with n >= 1 non-NULL values and       *)
(* k >= 2 returns one REPEATED cell of exactly k values, the i-th being    *)
(* the element at index min(floor(n*i/(k-1)), n-1) of the ascending        *)
(* non-NULL values; so the first is the minimum, the last the maximum, the *)
(* sequence is non-decreasing, and for k = 2 it is [min, max].             *)
(***************************************************************************)
C4_QuantilesPickRankedValues ==
    (/\ Done("quantiles")
     /\ ScalarGroup
     /\ NonNullSlots # {}
     /\ Len(args.num_quantiles_list.values) > 0
     /\ args.num_quantiles_list.values[1].v >= 2) =>
        LET n == Cardinality(NonNullSlots)
            k == args.num_quantiles_list.values[1].v IN
        /\ Returned(result)
        /\ result.val.mode = REPEATED
        /\ Len(result.val.values) = 1
        /\ LET cell == result.val.values[1].v IN
           /\ Len(cell) = k
           /\ \A i \in 0..(k - 1) :
                  cell[i + 1] = PyInt(RankedValue(Min2((n * i) \div (k - 1), n - 1)))
           /\ cell[1] = PyInt(GroupMin)
           /\ cell[k] = PyInt(GroupMax)
           /\ \A i \in 1..(k - 1) : cell[i].v <= cell[i + 1].v
           /\ k = 2 => cell = <<PyInt(GroupMin), PyInt(GroupMax)>>

\* Three quantiles of a group with a NULL and two distinct values: the last
\* index is clamped to n - 1.
C4_Witness ==
    /\ Done("quantiles")
    /\ ScalarGroup
    /\ NullSlots # {}
    /\ GroupInts = {-1, 1}
    /\ Len(args.num_quantiles_list.values) > 0
    /\ args.num_quantiles_list.values[1].v = 3
    /\ Returned(result)
    /\ result.val.values[1].v = <<PyInt(-1), PyInt(1), PyInt(1)>>

(***************************************************************************)
(* C5: QUANTILES(col, k) on a group without non-NULL values (an empty or   *)
(* an all-NULL column) returns a single NULL for any literal k, rather     *)
(* than failing or returning a sequence of k values.                       *)
(***************************************************************************)
C5_QuantilesOfNoValuesIsNull ==
    (/\ Done("quantiles")
     /\ ScalarGroup
     /\ NonNullSlots = {}
     /\ Len(args.num_quantiles_list.values) > 0) =>
        /\ Returned(result)
        /\ result.val.values = <<None>>

(***************************************************************************)
(* C6: over a group whose values are all NULL (the empty group included)   *)
(* AVG returns a single NULL and SUM returns 0; over a group with a        *)
(* non-NULL value AVG is the sum of the non-NULL values divided by their   *)
(* count and SUM is the sum of the non-NULL values.                        *)
(***************************************************************************)
C6_AvgAndSumSkipNulls ==
    /\ (Done("sum") /\ ScalarGroup) =>
           /\ Returned(result)
           /\ result.val.values = <<PyInt(GroupTotal)>>
           /\ NonNullSlots = {} => result.val.values = <<PyInt(0)>>
    /\ (Done("avg") /\ ScalarGroup) =>
           /\ Returned(result)
           /\ Len(result.val.values) = 1
           /\ NonNullSlots = {} => result.val.values = <<None>>
           /\ NonNullSlots # {} =>
                LET q == result.val.values[1] IN
                /\ q.t = "float"
                /\ q.v[2] > 0
                /\ q.v[1] * Cardinality(NonNullSlots) = GroupTotal * q.v[2]

\* AVG over a group with a NULL and two values whose mean is 1/2.
C6_Witness ==
    /\ Done("avg")
    /\ ScalarGroup
    /\ NullSlots # {}
    /\ Cardinality(NonNullSlots) = 2
    /\ Returned(result)
    /\ result.val.values[1].t = "float"
    /\ result.val.values[1].v = <<1, 2>>

(***************************************************************************)
(* C7: COUNT is the number of non-NULL slots of the group; COUNT_DISTINCT  *)
(* is the number of distinct non-NULL values, plus one if the group holds  *)
(* at least one NULL, however many NULLs there are.                        *)
(***************************************************************************)
C7_CountAndCountDistinct ==
    /\ (Done("count") /\ ScalarGroup) =>
           result = Return(Column(tq_INT, NULLABLE,
                                  <<PyInt(Cardinality(NonNullSlots))>>))
    /\ (Done("count_distinct") /\ ScalarGroup) =>
           result = Return(Column(tq_INT, NULLABLE,
                        <<PyInt(Cardinality(GroupInts)
                                + (IF NullSlots # {} THEN 1 ELSE 0))>>))

\* COUNT_DISTINCT over a group with two NULLs and one value is 2.
C7_Witness ==
    /\ Done("count_distinct")
    /\ ScalarGroup
    /\ Cardinality(NullSlots) = 2
    /\ Cardinality(GroupInts) = 1
    /\ result = Return(Column(tq_INT, NULLABLE, <<PyInt(2)>>))

(***************************************************************************)
(* C8: DATE_ADD(ts, count, 'MONTH') succeeds for every valid timestamp and *)
(* every integer count, and returns the timestamp with                     *)
(* new_month = 1 + (month - 1 + count) mod 12,                             *)
(* new_year = year + floor((month - 1 + count) / 12) and the day, hour,    *)
(* minute, second and microsecond unchanged.                               *)
(***************************************************************************)
IsLiteral(column, value) ==
    /\ Len(column.values) > 0
    /\ \A i \in DOMAIN column.values : column.values[i] = value

C8_DateAddMonthAlwaysSucceeds ==
    \A count \in (-MaxCount)..MaxCount :
        (/\ Done("date_add")
         /\ IsLiteral(args.nums_intervals, PyInt(count))
         /\ IsLiteral(args.interval_types, PyStr("MONTH"))) =>
            /\ Returned(result)
            /\ Len(result.val.values) = Len(args.timestamps.values)
            /\ \A i \in DOMAIN args.timestamps.values :
                   LET ts == args.timestamps.values[i].v
                       new == result.val.values[i].v IN
                   /\ new.month = 1 + ((ts.month - 1 + count) % 12)
                   /\ new.month \in 1..12
                   /\ new.year = ts.year + (ts.month - 1 + count) \div 12
                   /\ new.day = ts.day
                   /\ new.hour = ts.hour
                   /\ new.minute = ts.minute
                   /\ new.second = ts.second
                   /\ new.microsecond = ts.microsecond

(***************************************************************************)
(* C9: every function with a required literal argument fails at            *)
(* evaluation, returning no column, whenever that argument's column holds  *)
(* two different values: the pattern of REGEXP_MATCH, REGEXP_EXTRACT and   *)
(* REGEXP_REPLACE, the replacement of REGEXP_REPLACE, the count and unit   *)
(* of DATE_ADD, the format of STRFTIME, the weekday of UTC_USEC_TO_WEEK,   *)
(* the index of NTH and the quantile count of QUANTILES.                   *)
(***************************************************************************)
HoldsTwoValues(column) ==
    \E i, j \in DOMAIN column.values : column.values[i] # column.values[j]

C9_NonLiteralArgumentFails ==
    pc = "done" =>
        /\ (fn \in {"regexp_match", "regexp_extract", "regexp_replace"}
                /\ HoldsTwoValues(args.regexps)) => Raised(result)
        /\ (fn = "regexp_replace" /\ HoldsTwoValues(args.replacements)) =>
               Raised(result)
        /\ (fn = "date_add" /\ HoldsTwoValues(args.nums_intervals)) =>
               Raised(result)
        /\ (fn = "date_add" /\ HoldsTwoValues(args.interval_types)) =>
               Raised(result)
        /\ (fn = "strftime_utc_usec" /\ HoldsTwoValues(args.formats)) =>
               Raised(result)
        /\ (fn = "utc_usec_to_week" /\ HoldsTwoValues(args.weekdays)) =>
               Raised(result)
        /\ (fn = "nth" /\ HoldsTwoValues(args.index_list)) => Raised(result)
        /\ (fn = "quantiles" /\ HoldsTwoValues(args.num_quantiles_list)) =>
               Raised(result)

(***************************************************************************)
(* C10: REGEXP_EXTRACT(s, pattern) fails for every input column when the   *)
(* literal pattern has zero or two capturing groups; with exactly one      *)
(* group it succeeds and each row yields the group's text if the pattern   *)
(* matches the row and NULL if it does not.                                *)
(***************************************************************************)
C10_RegexpExtractNeedsOneGroup ==
    \A p \in Patterns :
        (Done("regexp_extract") /\ IsLiteral(args.regexps, p)) =>
            /\ GroupCount(p.v) \in {0, 2} => Raised(result)
            /\ GroupCount(p.v) = 1 =>
                /\ Returned(result)
                /\ Len(result.val.values) = Len(args.strings.values)
                /\ \A i \in DOMAIN args.strings.values :
                       result.val.values[i] =
                           IF re_search(p.v, args.strings.values[i].v)
                           THEN PyStr(Group1(p.v)) ELSE None

(***************************************************************************)
(* C11: IFNULL on two aligned columns of num_rows rows returns a column    *)
(* of num_rows rows whose row i is colA[i] when colA[i] is not NULL and    *)
(* colB[i] when it is; a row of the result is NULL only where both         *)
(* arguments are NULL.                                                     *)
(***************************************************************************)
C11_IfNullRowWise ==
    Done("ifnull") =>
        /\ Returned(result)
        /\ Len(result.val.values) = args.num_rows
        /\ \A i \in 1..args.num_rows :
               /\ result.val.values[i] =
                      IF IsNone(args.arg1.values[i]) THEN args.arg2.values[i]
                      ELSE args.arg1.values[i]
               /\ IsNone(result.val.values[i]) =>
                      IsNone(args.arg1.values[i]) /\ IsNone(args.arg2.values[i])

(***************************************************************************)
(* Definitions the timestamp claims are stated with.                       *)
(***************************************************************************)
\* Row i of the argument of a composed entry, as a timestamp.
InputDatetime(i) ==
    IF args.column.type = tq_TIMESTAMP THEN args.column.values[i]
    ELSE utc_from_usec(args.column.values[i])

\* The weekday, 0 being Sunday, of the day that is d days after
\* 1970-01-01, a Thursday.
WeekdayOfDay(d) == (d + 4) % 7

(***************************************************************************)
(* C12: WEEK(ts) is between 1 and 53 for every date.                       *)
(***************************************************************************)
C12_WeekWithin1To53 ==
    Done("week") =>
        /\ Returned(result)
        /\ \A i \in DOMAIN result.val.values :
               /\ result.val.values[i].v[1] = 0
               /\ result.val.values[i].v[2] \in 1..53

(***************************************************************************)
(* C13, as claimed: UTC_USEC_TO_WEEK with a literal weekday in 0..6        *)
(* returns midnight of a day of the requested weekday, and no day of that  *)
(* weekday is closer to the input's day.                                   *)
(***************************************************************************)
LiteralWeekdayCall ==
    /\ Done("utc_usec_to_week")
    /\ args.num_rows > 0
    /\ \A i \in DOMAIN args.weekdays.values :
           args.weekdays.values[i] = args.weekdays.values[1]
InputDay(i) == args.unix_timestamps.values[i].v[1] \div 86400
ResultDay(i) == result.val.values[i].v[1] \div 86400
ResultIsMidnightOfWeekday(i) ==
    /\ result.val.values[i].v[2] = 0
    /\ result.val.values[i].v[1] % 86400 = 0
    /\ WeekdayOfDay(ResultDay(i)) = args.weekdays.values[1].v

C13_MinimalShiftToWeekday ==
    LiteralWeekdayCall =>
        /\ Returned(result)
        /\ Len(result.val.values) = args.num_rows
        /\ \A i \in 1..args.num_rows :
               /\ ResultIsMidnightOfWeekday(i)
               /\ \A d \in (InputDay(i) - 6)..(InputDay(i) + 6) :
                      WeekdayOfDay(d) = args.weekdays.values[1].v =>
                          Abs(d - InputDay(i)) >= Abs(ResultDay(i) - InputDay(i))

(***************************************************************************)
(* C13, amended: UTC_USEC_TO_WEEK with a literal weekday in 0..6 returns   *)
(* midnight of the day of the requested weekday in the Sunday-to-Saturday  *)
(* week of the input's day: the shift in days is the requested weekday     *)
(* minus the input's weekday, between -6 and 6.                            *)
(***************************************************************************)
C13_ShiftWithinSundayWeek ==
    LiteralWeekdayCall =>
        /\ Returned(result)
        /\ Len(result.val.values) = args.num_rows
        /\ \A i \in 1..args.num_rows :
               /\ ResultIsMidnightOfWeekday(i)
               /\ ResultDay(i) - InputDay(i) =
                      args.weekdays.values[1].v - WeekdayOfDay(InputDay(i))

\* A Saturday asked for its Sunday is shifted six days back.
C13_Witness ==
    /\ LiteralWeekdayCall
    /\ Returned(result)
    /\ args.weekdays.values[1].v = 0
    /\ WeekdayOfDay(InputDay(1)) = 6
    /\ ResultDay(1) = InputDay(1) - 6

(***************************************************************************)
(* C14: Compose(f1, ..., fn), n >= 2, applies fn to the arguments and      *)
(* threads the result through fn-1, ..., f1, in check_types and in         *)
(* evaluate; a type error of a stage is the outcome of check_types; with   *)
(* fewer than two functions the construction fails.                        *)
(***************************************************************************)
Front(fs) == SubSeq(fs, 1, Len(fs) - 1)
Last(fs) == fs[Len(fs)]

RECURSIVE ThreadTypes(_, _)
ThreadTypes(fs, r) ==
    IF fs = <<>> \/ Raised(r) THEN r
    ELSE ThreadTypes(Front(fs), Function_check_types(Last(fs), <<r.val>>))

RECURSIVE ThreadColumns(_, _, _)
ThreadColumns(fs, n, r) ==
    IF fs = <<>> \/ Raised(r) THEN r
    ELSE ThreadColumns(Front(fs), n, Function_evaluate(Last(fs), n, <<r.val>>))

C14_ComposeThreadsFromLast ==
    /\ Done("Compose.check_types") =>
           IF Len(args.functions) < 2 THEN result = Raise("AssertionError")
           ELSE /\ result = ThreadTypes(Front(args.functions),
                                Function_check_types(Last(args.functions),
                                                     args.types))
                /\ Raised(result) <=>
                       ~StagesAccept(args.functions, args.types[1])
                /\ Raised(result) => result = Raise("TypeError")
    /\ Done("Compose.evaluate") =>
           IF Len(args.functions) < 2 THEN result = Raise("AssertionError")
           ELSE result = ThreadColumns(Front(args.functions), args.num_rows,
                             Function_evaluate(Last(args.functions),
                                               args.num_rows, args.arg_lists))

\* MONTH of the day of a column of two ints of microseconds: three stages,
\* the last-listed applied first.
C14_Witness ==
    /\ Done("Compose.evaluate")
    /\ args.functions = <<TimestampExtractFunction("month", tq_INT),
                          TimestampShiftFunction("day"), TimestampFunction>>
    /\ args.num_rows = 2
    /\ args.arg_lists[1].type = tq_INT
    /\ Returned(result)
    /\ result.val.type = tq_INT
    /\ result.val.values = <<PyIntUsec(12), PyIntUsec(2)>>

(***************************************************************************)
(* C15: truncation is idempotent and nested: truncating the result again   *)
(* to the same unit changes nothing; truncating to a unit after a finer    *)
(* one is truncating to the unit; year <= month <= day <= hour <= ts; and  *)
(* the month truncation of a timestamp is the day truncation of the 1st    *)
(* of its month at 00:00:00.                                               *)
(***************************************************************************)
Units == <<"hour", "day", "month", "year">>
Rank(u) == CHOOSE k \in 1..4 : Units[k] = u

\* TimestampShiftFunction(u).evaluate on the one-row column of ts.
Truncated(u, ts) ==
    TimestampShiftFunction_evaluate(u, 1,
        Column(tq_TIMESTAMP, NULLABLE, <<ts>>)).val.values[1]

Fields(ts) ==
    <<ts.v.year, ts.v.month, ts.v.day, ts.v.hour, ts.v.minute, ts.v.second,
      ts.v.microsecond>>
RECURSIVE FieldsLeq(_, _)
FieldsLeq(a, b) ==
    IF a = <<>> THEN TRUE
    ELSE IF Head(a) # Head(b) THEN Head(a) < Head(b)
    ELSE FieldsLeq(Tail(a), Tail(b))
NotAfter(a, b) == FieldsLeq(Fields(a), Fields(b))

FirstOfMonth(ts) ==
    PyDatetime([year |-> ts.v.year, month |-> ts.v.month, day |-> 1,
                hour |-> 0, minute |-> 0, second |-> 0, microsecond |-> 0])

IsTruncationCall ==
    /\ Done("TimestampShiftFunction.evaluate")
    /\ args.interval \in Elems(Units)

C15_TruncationCascade ==
    IsTruncationCall =>
        /\ Returned(result)
        /\ Len(result.val.values) = args.num_rows
        /\ \A i \in 1..args.num_rows :
               LET ts == args.timestamps.values[i]
                   r == result.val.values[i] IN
               /\ Truncated(args.interval, r) = r
               /\ \A v \in Elems(Units) :
                      /\ Rank(v) <= Rank(args.interval) =>
                             Truncated(args.interval, Truncated(v, ts)) = r
                      /\ Rank(v) >= Rank(args.interval) =>
                             NotAfter(Truncated(v, ts), r)
               /\ NotAfter(r, ts)
               /\ args.interval = "month" =>
                      r = Truncated("day", FirstOfMonth(ts))

\* The last microsecond of a leap day, truncated to its month.
C15_Witness ==
    /\ IsTruncationCall
    /\ args.interval = "month"
    /\ args.num_rows = 1
    /\ Fields(args.timestamps.values[1]) = <<2024, 2, 29, 23, 59, 59, 999999>>
    /\ Returned(result)
    /\ Fields(result.val.values[1]) = <<2024, 2, 1, 0, 0, 0, 0>>

(***************************************************************************)
(* C17: QUARTER(ts) is 1 for the months 1-3, 2 for 4-6, 3 for 7-9 and 4    *)
(* for 10-12.                                                              *)
(***************************************************************************)
C17_QuarterOfMonth ==
    Done("quarter") =>
        /\ Returned(result)
        /\ \A i \in DOMAIN result.val.values :
               /\ result.val.values[i].v[1] = 0
               /\ result.val.values[i].v[2] \in 1..4
               /\ result.val.values[i].v[2] =
                      ((InputDatetime(i).v.month - 1) \div 3) + 1

(***************************************************************************)
(* C16: the type of the column evaluate returns is the type check_types    *)
(* returns for the types of the argument columns, whenever check_types     *)
(* accepts them; SUM over a FLOAT column returns a FLOAT column and SUM    *)
(* over a BOOL column an INT column.                                       *)
(***************************************************************************)
\* check_types of the function called, on the types of its arguments.
DeclaredType ==
    IF fn = "sum" THEN SumFunction_check_types(args.column.type)
    ELSE IF fn \in {"min", "max"}
    THEN MinMaxFunction_check_types(args.column.type)
    ELSE IF fn = "count" THEN CountFunction_check_types(args.column.type)
    ELSE IF fn = "avg" THEN AvgFunction_check_types(args.column.type)
    ELSE IF fn = "count_distinct"
    THEN CountDistinctFunction_check_types(args.column.type)
    ELSE IF fn = "stddev_samp"
    THEN StddevSampFunction_check_types(args.column.type)
    ELSE IF fn = "quantiles"
    THEN QuantilesFunction_check_types(args.column.type,
                                       args.num_quantiles_list.type)
    ELSE IF fn = "first" THEN FirstFunction_check_types(args.column.type)
    ELSE Compose_check_types(Compose_init(FUNCTIONS(fn)).val,
                             <<args.column.type>>)

C16_TypeTagIsCheckedType ==
    /\ (/\ pc = "done"
        /\ fn \in AGGREGATE_FUNCTIONS \cup ComposedFunctions
        /\ Returned(DeclaredType)
        /\ Returned(result)) =>
           result.val.type = DeclaredType.val
    /\ (Done("sum") /\ args.column.type = tq_FLOAT) =>
           Returned(result) /\ result.val.type = tq_FLOAT
    /\ (Done("sum") /\ args.column.type = tq_BOOL) =>
           Returned(result) /\ result.val.type = tq_INT

====
